---- MODULE Spec2Model ----
(***************************************************************************)
(* Model of the image-list generators link-list.py, link-list-new.py and   *)
(* link-list-v2.py.  Python strings are modelled as sequences of           *)
(* one-character strings, so that splitting, searching, stripping and      *)
(* encoding are computed the way the scripts compute them.                 *)
(***************************************************************************)
EXTENDS Integers, Sequences, FiniteSets, TLC

(***************************************************************************)
(* Bounds                                                                  *)
(***************************************************************************)
MaxNameLen == 5
MaxSegLen == 5
MaxSegs == 4
MaxRepoLen == 3

(***************************************************************************)
(* Python string primitives used by the scripts                            *)
(***************************************************************************)
\* All strings over alphabet A of length at most n.
RECURSIVE StringsUpTo(_, _)
StringsUpTo(A, n) ==
    IF n = 0 THEN { <<>> }
    ELSE LET shorter == StringsUpTo(A, n - 1)
         IN shorter \cup { Append(s, c) : s \in shorter, c \in A }

\* s[i:] with a 1-based index.
Tail_from(s, i) == SubSeq(s, i, Len(s))

\* True when sub occurs in s starting at index i.
IsSubAt(s, sub, i) ==
    /\ i >= 1
    /\ i + Len(sub) - 1 <= Len(s)
    /\ SubSeq(s, i, i + Len(sub) - 1) = sub

\* "sub in s"
Contains(s, sub) == \E i \in 1..(Len(s) + 1) : IsSubAt(s, sub, i)

\* s.find(sub), 1-based; 0 when absent (Python: -1).
Find(s, sub) ==
    IF Contains(s, sub)
    THEN CHOOSE i \in 1..(Len(s) + 1) :
            IsSubAt(s, sub, i) /\ \A j \in 1..(i - 1) : ~IsSubAt(s, sub, j)
    ELSE 0

\* s.rfind(c) for a single character, 1-based; 0 when absent.
RFind(s, c) ==
    IF \E i \in 1..Len(s) : s[i] = c
    THEN CHOOSE i \in 1..Len(s) : s[i] = c /\ \A j \in (i + 1)..Len(s) : s[j] # c
    ELSE 0

\* s.startswith(p)
StartsWith(s, p) == IsSubAt(s, p, 1)

\* s.split(c) for a one-character separator: never returns an empty list.
RECURSIVE Split(_, _)
Split(s, c) ==
    LET i == Find(s, <<c>>)
    IN IF i = 0 THEN << s >>
       ELSE << SubSeq(s, 1, i - 1) >> \o Split(Tail_from(s, i + 1), c)

\* c.join(parts)
RECURSIVE Join(_, _)
Join(parts, c) ==
    IF Len(parts) = 0 THEN <<>>
    ELSE IF Len(parts) = 1 THEN parts[1]
    ELSE parts[1] \o <<c>> \o Join(Tail(parts), c)

\* str.lower() on ASCII letters.
UpperCase ==
    << "A", "B", "C", "D", "E", "F", "G", "H", "I", "J", "K", "L", "M",
       "N", "O", "P", "Q", "R", "S", "T", "U", "V", "W", "X", "Y", "Z" >>

LowerCase ==
    << "a", "b", "c", "d", "e", "f", "g", "h", "i", "j", "k", "l", "m",
       "n", "o", "p", "q", "r", "s", "t", "u", "v", "w", "x", "y", "z" >>

LowerChar(c) ==
    IF \E i \in 1..26 : UpperCase[i] = c
    THEN LowerCase[CHOOSE i \in 1..26 : UpperCase[i] = c]
    ELSE c

Lower(s) == [i \in 1..Len(s) |-> LowerChar(s[i])]

\* os.path.splitext(p)[1]: the extension starts at the last dot, provided the
\* dot comes after the last separator and is preceded, within the last
\* component, by at least one character that is not a dot.
splitext_ext(p) ==
    LET sepIndex == RFind(p, "/")
        dotIndex == RFind(p, ".")
    IN IF /\ dotIndex > sepIndex
          /\ \E k \in (sepIndex + 1)..(dotIndex - 1) : p[k] # "."
       THEN Tail_from(p, dotIndex)
       ELSE <<>>

ALLOWED_EXT ==
    { <<".", "p", "n", "g">>, <<".", "j", "p", "g">>, <<".", "j", "p", "e", "g">>,
      <<".", "g", "i", "f">>, <<".", "w", "e", "b", "p">>, <<".", "b", "m", "p">>,
      <<".", "t", "i", "f">>, <<".", "t", "i", "f", "f">>, <<".", "s", "v", "g">> }

\* Variant that forgets lower().
is_image_case_sensitive(filename) == splitext_ext(filename) \in ALLOWED_EXT

is_image(filename) == splitext_ext(Lower(filename)) \in ALLOWED_EXT

(***************************************************************************)
(* State                                                                   *)
(***************************************************************************)
VARIABLES
    arg,    \* input of the pure function under check
    fn,     \* name of the function that was applied, "none" before
    res,    \* its result, "pending" before
    env,    \* what a run of main finds: script variant, argv, folders, git
    pc,     \* position of the run inside main
    files,  \* main's list of image paths
    gitInfo, \* (owner, repo, branch) as main holds them, Absent for None
    csv,    \* rows of images.csv, "untouched" while it was never opened
    exit    \* main's return code, or the exception that left main

pureVars == << arg, fn, res >>

mainVars == << env, pc, files, gitInfo, csv, exit >>

vars == << arg, fn, res, env, pc, files, gitInfo, csv, exit >>

\* main's owner = repo = branch = None.
Absent == [ status |-> "absent" ]

\* Specifications of the pure functions leave the run of main idle.
MainIdle ==
    /\ env = "idle"
    /\ pc = "idle"
    /\ files = <<>>
    /\ gitInfo = Absent
    /\ csv = "untouched"
    /\ exit = "none"

(***************************************************************************)
(* Path decomposers                                                        *)
(***************************************************************************)
IsDigit(c) == c \in { "0", "1", "2", "3", "4", "5", "6", "7", "8", "9" }

IsSpace(c) == c \in { " ", "\t", "\n" }

\* s.strip()
RECURSIVE LStrip(_)
LStrip(s) == IF Len(s) > 0 /\ IsSpace(s[1]) THEN LStrip(Tail(s)) ELSE s

RECURSIVE RStrip(_)
RStrip(s) ==
    IF Len(s) > 0 /\ IsSpace(s[Len(s)]) THEN RStrip(SubSeq(s, 1, Len(s) - 1)) ELSE s

Strip(s) == RStrip(LStrip(s))

PathRecord(project, period, subunit, displayName) ==
    [ status |-> "ok", project |-> project, period |-> period,
      subunit |-> subunit, displayName |-> displayName ]

Raised(exc) == [ status |-> exc ]

\* s.rfind(sub), 1-based; 0 when absent.
RFindSub(s, sub) ==
    IF Contains(s, sub)
    THEN CHOOSE i \in 1..(Len(s) + 1) :
            IsSubAt(s, sub, i) /\ \A j \in (i + 1)..(Len(s) + 1) : ~IsSubAt(s, sub, j)
    ELSE 0

\* Variant cutting at the last ". " (rsplit) instead of the first.
clean_folder_name_rsplit(name) ==
    IF Contains(name, <<".", " ">>) /\ IsDigit(name[1])
    THEN Tail_from(name, RFindSub(name, <<".", " ">>) + 2)
    ELSE name

\* link-list-v2.py: numeric-prefix stripping, name.split('. ', 1)[1].
clean_folder_name(name) ==
    IF Contains(name, <<".", " ">>) /\ IsDigit(name[1])
    THEN Tail_from(name, Find(name, <<".", " ">>) + 2)
    ELSE name

\* link-list-v2.py
parse_path_info(path) ==
    LET split == Split(path, "/")
        parts == IF split[1] = <<".">> THEN Tail(split) ELSE split
    IN IF Len(parts) = 2 THEN PathRecord(parts[1], <<>>, <<>>, path)
       ELSE IF Len(parts) = 3 THEN PathRecord(parts[1], parts[2], <<>>, path)
       ELSE IF Len(parts) < 2 THEN Raised("IndexError")
       ELSE PathRecord(parts[1], parts[2], clean_folder_name(parts[3]), path)

\* Variant of the marker search that forgets strip().
di_name_unstripped(folder_name) ==
    IF Contains(folder_name, <<"D", ".", "I">>)
    THEN Split(Tail_from(folder_name, Find(folder_name, <<"D", ".", "I">>)), "/")[1]
    ELSE <<>>

\* link-list-new.py: marker search inside row_from_path,
\* folder_name[di_start:].split("/")[0].strip(), "" when "D.I" is absent.
di_name(folder_name) ==
    IF Contains(folder_name, <<"D", ".", "I">>)
    THEN Strip(Split(Tail_from(folder_name, Find(folder_name, <<"D", ".", "I">>)), "/")[1])
    ELSE <<>>

\* link-list-new.py
row_from_path_new(path) ==
    LET parts == Split(path, "/")
    IN IF Len(parts) = 0 THEN PathRecord(<<>>, <<>>, <<>>, <<>>)
       ELSE PathRecord(parts[1],
                       IF Len(parts) > 1 THEN parts[2] ELSE <<>>,
                       IF Len(parts) > 2 THEN di_name(parts[3]) ELSE <<>>,
                       <<".", "/">> \o path)

\* link-list.py (os.sep is "/"): up to three folder levels and the file name.
row_from_path(path) ==
    LET parts == Split(path, "/")
    IN IF Len(parts) = 0 THEN PathRecord(<<>>, <<>>, <<>>, <<>>)
       ELSE LET filename == parts[Len(parts)]
                folders == SubSeq(parts, 1, Len(parts) - 1)
            IN PathRecord(IF Len(folders) >= 1 THEN folders[1] ELSE <<>>,
                          IF Len(folders) >= 2 THEN folders[2] ELSE <<>>,
                          IF Len(folders) >= 3
                          THEN Join(SubSeq(folders, 3, Len(folders)), "/")
                          ELSE <<>>,
                          filename)

(***************************************************************************)
(* Decomposers applied to bounded paths                                    *)
(***************************************************************************)
SegAlphabet == { "1", ".", " ", "D", "I" }

RichSegs == StringsUpTo(SegAlphabet, MaxSegLen)

PlainSegs == << <<"P">>, <<"M">>, <<"S">>, <<"T">>, <<"U">>, <<"V">> >>

\* A path of n segments whose r-th segment is s, the others plain names,
\* optionally prefixed with the "./" marker.
PathOf(n, r, s, dot) ==
    LET segs == [i \in 1..n |-> IF i = r THEN s ELSE PlainSegs[i]]
    IN (IF dot THEN <<".", "/">> ELSE <<>>) \o Join(segs, "/")

PathInputs ==
    { <<>> } \cup
    { PathOf(n, r, s, dot) : n \in 1..MaxSegs, r \in 1..MaxSegs, s \in RichSegs, dot \in BOOLEAN }

PathInit ==
    /\ MainIdle
    /\ arg \in PathInputs
    /\ fn = "none"
    /\ res = "pending"

ApplyParsePathInfo ==
    /\ fn = "none"
    /\ fn' = "parse_path_info"
    /\ res' = parse_path_info(arg)
    /\ UNCHANGED << arg, mainVars >>

ApplyRowFromPathNew ==
    /\ fn = "none"
    /\ fn' = "row_from_path_new"
    /\ res' = row_from_path_new(arg)
    /\ UNCHANGED << arg, mainVars >>

ApplyRowFromPath ==
    /\ fn = "none"
    /\ fn' = "row_from_path"
    /\ res' = row_from_path(arg)
    /\ UNCHANGED << arg, mainVars >>

PathNext == ApplyParsePathInfo \/ ApplyRowFromPathNew \/ ApplyRowFromPath

SpecPath == PathInit /\ [][PathNext]_vars

(***************************************************************************)
(* The two sub-unit rules applied to the same folder segment               *)
(***************************************************************************)
RulesInit ==
    /\ MainIdle
    /\ arg \in RichSegs
    /\ fn = "none"
    /\ res = [ marker |-> "pending", cleaned |-> "pending" ]

ApplyDiName ==
    /\ res.marker = "pending"
    /\ res' = [ res EXCEPT !.marker = di_name(arg) ]
    /\ fn' = "di_name"
    /\ UNCHANGED << arg, mainVars >>

ApplyCleanFolderName ==
    /\ res.cleaned = "pending"
    /\ res' = [ res EXCEPT !.cleaned = clean_folder_name(arg) ]
    /\ fn' = "clean_folder_name"
    /\ UNCHANGED << arg, mainVars >>

RulesNext == ApplyDiName \/ ApplyCleanFolderName

SpecRules == RulesInit /\ [][RulesNext]_vars

(***************************************************************************)
(* Properties of the path decomposers                                      *)
(***************************************************************************)
Empty == <<>>

DotSpace == <<".", " ">>

Marker == <<"D", ".", "I">>

\* The segments of a path once an optional leading "./" is set aside.
SegmentsOf(path) ==
    IF StartsWith(path, <<".", "/">>) THEN Split(Tail_from(path, 3), "/")
    ELSE Split(path, "/")

NamedFieldsApplied ==
    /\ fn \in { "parse_path_info", "row_from_path_new" }
    /\ \A i \in 1..Len(SegmentsOf(arg)) : SegmentsOf(arg)[i] # Empty

\* C1: for a path of exactly 2 segments the named-fields decomposers return
\* period = "" and subunit = "", and for a path of exactly 3 segments they
\* return subunit = "": the file name never fills a metadata field.
C1_FilenameNeverAField ==
    NamedFieldsApplied =>
        /\ Len(SegmentsOf(arg)) = 2 =>
              res.status = "ok" /\ res.period = Empty /\ res.subunit = Empty
        /\ Len(SegmentsOf(arg)) = 3 =>
              res.status = "ok" /\ res.subunit = Empty

\* C2: every decomposer variant returns four empty strings on the empty
\* path and does not fail.
C2_EmptyPathFourEmpty ==
    (fn # "none" /\ arg = Empty) => res = PathRecord(Empty, Empty, Empty, Empty)

HasNumericPrefix(s) == Len(s) > 0 /\ IsDigit(s[1]) /\ Contains(s, DotSpace)

\* cleaned(s) as the specification words it: what follows the first ". ".
Cleaned(s) ==
    IF HasNumericPrefix(s)
    THEN LET first == CHOOSE i \in 1..Len(s) :
                         /\ IsSubAt(s, DotSpace, i)
                         /\ \A j \in 1..(i - 1) : ~IsSubAt(s, DotSpace, j)
         IN [k \in 1..(Len(s) - first - 1) |-> s[first + 1 + k]]
    ELSE s

BothRulesApplied == res.marker # "pending" /\ res.cleaned # "pending"

\* C10 as stated: the marker search and the numeric-prefix stripping differ
\* whenever the segment contains "D.I" without a numeric prefix, and
\* whenever it has a numeric prefix without "D.I".
C10_RulesAlwaysDiverge ==
    BothRulesApplied =>
        /\ (Contains(arg, Marker) /\ ~HasNumericPrefix(arg)) => res.marker # res.cleaned
        /\ (HasNumericPrefix(arg) /\ ~Contains(arg, Marker)) => res.marker # res.cleaned

\* C10 amended: they differ in those two cases except when the segment
\* begins with "D.I" and does not end in whitespace (both return it
\* unchanged) and except when nothing follows the first ". " (both "").
C10_RulesDivergeExceptFixpoints ==
    BothRulesApplied =>
        /\ ( /\ Contains(arg, Marker)
             /\ ~HasNumericPrefix(arg)
             /\ ~(StartsWith(arg, Marker) /\ ~IsSpace(arg[Len(arg)])) )
           => res.marker # res.cleaned
        /\ ( /\ HasNumericPrefix(arg)
             /\ ~Contains(arg, Marker)
             /\ Find(arg, DotSpace) + 1 < Len(arg) )
           => res.marker # res.cleaned
        /\ ( /\ Contains(arg, Marker)
             /\ ~HasNumericPrefix(arg)
             /\ StartsWith(arg, Marker) /\ ~IsSpace(arg[Len(arg)]) )
           => res.marker = res.cleaned
        /\ ( /\ HasNumericPrefix(arg)
             /\ ~Contains(arg, Marker)
             /\ Find(arg, DotSpace) + 1 = Len(arg) )
           => res.marker = res.cleaned

\* Both rules acted on a segment that holds "D.I" after other text and
\* on which they disagree.
C10_Witness ==
    /\ BothRulesApplied
    /\ Contains(arg, Marker)
    /\ ~StartsWith(arg, Marker)
    /\ ~HasNumericPrefix(arg)
    /\ res.marker # res.cleaned

(***************************************************************************)
(* Remote resolver                                                         *)
(***************************************************************************)
\* s.rstrip(chars): drops every trailing character that is in chars.
RECURSIVE RStripChars(_, _)
RStripChars(s, chars) ==
    IF Len(s) > 0 /\ s[Len(s)] \in chars
    THEN RStripChars(SubSeq(s, 1, Len(s) - 1), chars)
    ELSE s

DotGitChars == { ".", "g", "i", "t" }

RemoteInfo(owner, repo, branch) ==
    [ status |-> "ok", owner |-> owner, repo |-> repo, branch |-> branch ]

\* The git environment: installed tells whether the git binary can be run,
\* hasRemote and hasBranch whether the two git commands exit with status 0,
\* remote and branch are their outputs.
\* subprocess raises FileNotFoundError when the binary is missing and
\* CalledProcessError on a non-zero exit; only the latter is converted to
\* ValueError.  A tuple unpacking of the wrong size raises ValueError.
get_git_info(git) ==
    IF ~git.installed THEN Raised("FileNotFoundError")
    ELSE IF ~git.hasRemote THEN Raised("ValueError")
    ELSE
      LET remote == Strip(git.remote)
          https == Split(RStripChars(remote, DotGitChars), "/")
          ssh == Split(remote, ":")
          owner_repo == Split(RStripChars(ssh[2], DotGitChars), "/")
      IN IF ~Contains(remote, <<"g", "i", "t", "h", "u", "b", ".", "c", "o",
          "m">>) THEN Raised("ValueError")
         ELSE IF StartsWith(remote, <<"h", "t", "t", "p",
            "s">>) /\ Len(https) # 5 THEN Raised("ValueError")
         ELSE IF ~StartsWith(remote, <<"h", "t", "t", "p",
            "s">>) /\ Len(ssh) # 2 THEN Raised("ValueError")
         ELSE IF ~StartsWith(remote, <<"h", "t", "t", "p",
            "s">>) /\ Len(owner_repo) # 2 THEN Raised("ValueError")
         ELSE IF ~git.hasBranch THEN Raised("ValueError")
         ELSE IF StartsWith(remote, <<"h", "t", "t", "p", "s">>)
              THEN RemoteInfo(https[4], https[5], Strip(git.branch))
              ELSE RemoteInfo(owner_repo[1], owner_repo[2], Strip(git.branch))

(***************************************************************************)
(* Remote resolver applied to bounded well-formed remotes                  *)
(***************************************************************************)
OwnerAlphabet == { "o", "t" }

RepoAlphabet == { "r", "a", "g", "t" }

MainBranch == <<"m", "a", "i", "n">>

\* The remote URL of repository owner/repo in one of the two shapes.
RemoteUrl(shape, owner, repo, suffix) ==
    (IF shape = "https" THEN <<"h", "t", "t", "p", "s", ":", "/", "/", "g", "i", "t", "h",
        "u", "b", ".", "c", "o", "m", "/">> ELSE <<"g", "i", "t", "@", "g", "i", "t", "h",
            "u", "b", ".", "c", "o", "m", ":">>)
    \o owner \o <<"/">> \o repo \o (IF suffix THEN <<".", "g", "i", "t">> ELSE <<>>)

GitInit ==
    /\ MainIdle
    /\ arg \in [ shape : { "https", "ssh" },
                 owner : StringsUpTo(OwnerAlphabet, 2) \ { <<>> },
                 repo : StringsUpTo(RepoAlphabet, MaxRepoLen) \ { <<>> },
                 suffix : BOOLEAN ]
    /\ fn = "none"
    /\ res = "pending"

ApplyGetGitInfo ==
    /\ fn = "none"
    /\ fn' = "get_git_info"
    /\ res' = get_git_info([ installed |-> TRUE, hasRemote |-> TRUE, hasBranch |-> TRUE,
                             remote |-> RemoteUrl(arg.shape, arg.owner, arg.repo, arg.suffix)
                                        \o <<"\n">>,
                             branch |-> MainBranch \o <<"\n">> ])
    /\ UNCHANGED << arg, mainVars >>

GitNext == ApplyGetGitInfo

SpecGit == GitInit /\ [][GitNext]_vars

\* C6: for a remote of either shape with non-empty owner and repo names,
\* get_git_info returns exactly that owner and that repo, so the triple is
\* present with all parts non-empty.
C6_OwnerRepoExact ==
    fn = "get_git_info" =>
        res = RemoteInfo(arg.owner, arg.repo, MainBranch)

(***************************************************************************)
(* URL builder                                                             *)
(***************************************************************************)
\* part.replace(' ', '%20')
RECURSIVE ReplaceSpaces(_)
ReplaceSpaces(s) ==
    IF Len(s) = 0 THEN <<>>
    ELSE (IF s[1] = " " THEN <<"%", "2", "0">> ELSE << s[1] >>) \o ReplaceSpaces(Tail(s))

\* Variant that encodes the spaces of the file name only.
encode_path_last_only(path) ==
    LET parts == Split(path, "/")
    IN Join([i \in 1..Len(parts) |->
               IF i < Len(parts) THEN parts[i] ELSE ReplaceSpaces(parts[i])], "/")

encode_path(path) ==
    LET parts == Split(path, "/")
    IN Join([i \in 1..Len(parts) |-> ReplaceSpaces(parts[i])], "/")

\* link-list.py and link-list-v2.py: raw content URL.
make_github_url(owner, repo, branch, path) ==
    <<"h", "t", "t", "p", "s", ":", "/", "/", "r", "a", "w", ".", "g", "i", "t", "h", "u",
        "b", "u", "s", "e", "r", "c", "o", "n", "t", "e", "n", "t", ".", "c", "o", "m",
            "/">> \o owner \o <<"/">> \o repo
    \o <<"/", "r", "e", "f", "s", "/", "h", "e", "a", "d", "s",
        "/">> \o branch \o <<"/">> \o encode_path(path)

\* link-list-new.py: blob view URL.
make_github_url_new(owner, repo, branch, path) ==
    <<"h", "t", "t", "p", "s", ":", "/", "/", "g", "i", "t", "h", "u", "b", ".", "c", "o",
        "m", "/">> \o owner \o <<"/">> \o repo
    \o <<"/", "b", "l", "o", "b", "/">> \o branch \o <<"/">> \o encode_path(path)

(***************************************************************************)
(* Directory scanner                                                       *)
(***************************************************************************)
\* The characters of the model in code point order, for sorted().
CodePoints ==
    << " ", "%", ".", "/", "0", "1", "2", "3", "4", "5", "6", "7", "8", "9",
       ":", "@" >> \o UpperCase \o << "_" >> \o LowerCase

CodeOf(c) == CHOOSE i \in 1..Len(CodePoints) : CodePoints[i] = c

\* a < b for Python strings.
StrLess(a, b) ==
    \E k \in 1..(Len(b)) :
        /\ \A j \in 1..(k - 1) : j <= Len(a) /\ a[j] = b[j]
        /\ \/ k = Len(a) + 1
           \/ k <= Len(a) /\ CodeOf(a[k]) < CodeOf(b[k])

\* sorted(S) for a set of distinct strings.
RECURSIVE Sorted(_)
Sorted(S) ==
    IF S = {} THEN <<>>
    ELSE LET least == CHOOSE a \in S : \A b \in S \ {a} : StrLess(a, b)
         IN << least >> \o Sorted(S \ {least})

SeqRange(q) == { q[i] : i \in 1..Len(q) }

Basename(rel) == Split(rel, "/")[Len(Split(rel, "/"))]

\* walk is what os.walk yields under the root, as root-relative paths of
\* all files, in directory order.
list_images(walk) ==
    Sorted({ rel \in SeqRange(walk) : is_image(Basename(rel)) })

IsDir(cwd, name) == name \in DOMAIN cwd /\ cwd[name].kind = "dir"

scan_current_directory(cwd) ==
    Sorted({ item \in DOMAIN cwd : IsDir(cwd, item) /\ StartsWith(item, <<"O", "p", "l",
        "a", "h">>) })

(***************************************************************************)
(* main of the three scripts                                               *)
(***************************************************************************)
RECURSIVE Concat(_)
Concat(qs) == IF Len(qs) = 0 THEN <<>> ELSE qs[1] \o Concat(Tail(qs))

\* The prefix each script puts before the scanned relative paths.
PrefixOf(variant, folder) ==
    CASE variant = "v1"  -> ReplaceSpaces(folder) \o <<"/">>
      [] variant = "new" -> folder \o <<"/">>
      [] variant = "v2"  -> <<".", "/">> \o folder \o <<"/">>

FilesOf(variant, cwd, folder) ==
    LET found == list_images(cwd[folder].walk)
    IN [i \in 1..Len(found) |-> PrefixOf(variant, folder) \o found[i]]

Header(variant) ==
    IF variant = "v1"
    THEN << "folder", "subfolder", "subfolder", "nama gambar", "url" >>
    ELSE << "nama_proyek", "periode", "nama_di", "nama_gambar", "url" >>

\* "if owner and repo and branch"
UrlOf(variant, info, pth) ==
    IF info.status = "ok" /\ info.owner # <<>> /\ info.repo # <<>> /\ info.branch # <<>>
    THEN IF variant = "new"
         THEN make_github_url_new(info.owner, info.repo, info.branch, pth)
         ELSE make_github_url(info.owner, info.repo, info.branch, pth)
    ELSE <<>>

DecomposeOf(variant, pth) ==
    CASE variant = "v1"  -> row_from_path(pth)
      [] variant = "new" -> row_from_path_new(pth)
      [] variant = "v2"  -> parse_path_info(pth)

RowOf(variant, info, pth) ==
    LET r == DecomposeOf(variant, pth)
    IN << r.project, r.period, r.subunit, r.displayName, UrlOf(variant, info, pth) >>

\* Whether an exception raised at this step is inside a try block of main
\* that catches Exception.
Caught(variant, step) ==
    CASE variant = "v1"  -> step = "git"
      [] variant = "new" -> step \in { "git", "open", "write" }
      [] variant = "v2"  -> FALSE

Return(code) == pc' = "done" /\ exit' = code

Raise(step, exc) ==
    IF Caught(env.variant, step) THEN Return("3")
    ELSE pc' = "raised" /\ exit' = exc

Proj == <<"P", "r", "o", "j">>

OplahA == <<"O", "p", "l", "a", "h", " ", "A">>

OplahB == <<"O", "p", "l", "a", "h", "_", "B">>

C4Image == <<"M", "3", "/", "1", ".", " ", "D", ".", "I", " ", "F", "o", "o", "/", "i", "m",
    "g", ".", "p", "n", "g">>

Dir(walk) == [ kind |-> "dir", walk |-> walk ]

PlainFile == [ kind |-> "file", walk |-> <<>> ]

Layouts ==
    { << >>,
      [ n \in { Proj } |-> Dir(<< C4Image >>) ],
      [ n \in { Proj, OplahA, OplahB, <<"O", "p", "l", "a", "h", ".", "t", "x", "t">> } |->
          CASE n = Proj -> Dir(<< >>)
            [] n = OplahA -> Dir(<< <<"b", ".", "J", "P", "G">>, C4Image, <<"n", "o", "t",
            "e", "s", ".", "t", "x", "t">>, <<"a", " ", "b", ".", "p", "n", "g">> >>)
            [] n = OplahB -> Dir(<< <<"x", ".", "p", "n", "g">> >>)
            [] OTHER -> PlainFile ],
      [ n \in { OplahB } |-> Dir(<< <<"n", "o", "t", "e", "s", ".", "t", "x", "t">>, <<"n",
          "o", "e", "x", "t">> >>) ] }

Argvs == { << >>, << Proj >>, << OplahA >>, << OplahB >>, << <<"n", "o", "d", "i", "r">> >> }

GoodHttps == [ installed |-> TRUE, hasRemote |-> TRUE, hasBranch |-> TRUE,
               remote |-> <<"h", "t", "t", "p", "s", ":", "/", "/", "g", "i", "t", "h", "u",
            "b", ".", "c", "o", "m", "/", "o", "/", "r", ".", "g", "i",
            "t">> \o <<"\n">>,
               branch |-> MainBranch \o <<"\n">> ]

GitEnvs ==
    { GoodHttps,
      [ GoodHttps EXCEPT !.remote = <<"g", "i", "t", "@", "g", "i", "t", "h", "u", "b", ".",
          "c", "o", "m", ":", "o", "/", "r", ".", "g", "i", "t">> \o <<"\n">> ],
      [ GoodHttps EXCEPT !.installed = FALSE ],
      [ GoodHttps EXCEPT !.hasRemote = FALSE ],
      [ GoodHttps EXCEPT !.hasBranch = FALSE ],
      [ GoodHttps EXCEPT !.remote = <<"h", "t", "t", "p", "s", ":", "/", "/", "g", "i", "t",
          "l", "a", "b", ".", "c", "o", "m", "/", "o", "/", "r", ".", "g", "i",
            "t">> \o <<"\n">> ],
      [ GoodHttps EXCEPT !.remote = <<"h", "t", "t", "p", "s", ":", "/", "/", "g", "i", "t",
          "h", "u", "b", ".", "c", "o", "m", "/", "o", "/", "r", "/", "x">> \o <<"\n">> ] }

Init ==
    /\ arg = "idle"
    /\ fn = "none"
    /\ res = "pending"
    /\ env \in [ variant : { "v1", "new", "v2" }, argv : Argvs,
                 cwd : Layouts, git : GitEnvs ]
    /\ pc = "start"
    /\ files = <<>>
    /\ gitInfo = Absent
    /\ csv = "untouched"
    /\ exit = "none"

\* Argument handling up to the first scan.
Start ==
    /\ pc = "start"
    /\ IF env.variant = "v1"
       THEN IF env.argv = <<>> THEN Return("1")
            ELSE IF ~IsDir(env.cwd, env.argv[1]) THEN Return("2")
            ELSE pc' = "git" /\ UNCHANGED exit
       ELSE IF env.argv = <<>> THEN pc' = "listdir" /\ UNCHANGED exit
            ELSE IF ~IsDir(env.cwd, env.argv[1]) THEN Return("2")
            ELSE pc' = "scan" /\ UNCHANGED exit
    /\ UNCHANGED << pureVars, env, files, gitInfo, csv >>

\* No argument: every folder of the current directory named Oplah*.
ScanCurrentDirectory ==
    /\ pc = "listdir"
    /\ LET folders == scan_current_directory(env.cwd)
       IN IF folders = <<>>
          THEN Return("1") /\ UNCHANGED files
          ELSE /\ files' = Concat([i \in 1..Len(folders) |->
                                     IF IsDir(env.cwd, folders[i])
                                     THEN FilesOf(env.variant, env.cwd, folders[i])
                                     ELSE <<>>])
               /\ pc' = "git"
               /\ UNCHANGED exit
    /\ UNCHANGED << pureVars, env, gitInfo, csv >>

\* os.listdir() fails.
ListdirRaises ==
    /\ pc = "listdir"
    /\ Raise("listdir", "OSError")
    /\ UNCHANGED << pureVars, env, files, gitInfo, csv >>

\* The folder given as argument is scanned.
ScanFolder ==
    /\ pc = "scan"
    /\ files' = FilesOf(env.variant, env.cwd, env.argv[1])
    /\ pc' = IF env.variant = "v1" THEN "check" ELSE "git"
    /\ UNCHANGED << pureVars, env, gitInfo, csv, exit >>

\* try: owner, repo, branch = get_git_info()  except ValueError: ... = None
ResolveRemote ==
    /\ pc = "git"
    /\ LET r == get_git_info(env.git)
           next == IF env.variant = "v1" THEN "scan" ELSE "check"
       IN CASE r.status = "ok" ->
                 gitInfo' = r /\ pc' = next /\ UNCHANGED exit
            [] r.status = "ValueError" ->
                 gitInfo' = Absent /\ pc' = next /\ UNCHANGED exit
            [] OTHER ->
                 Raise("git", r.status) /\ UNCHANGED gitInfo
    /\ UNCHANGED << pureVars, env, files, csv >>

\* Variant without the early return on an empty list.
CheckFiles_no_return ==
    /\ pc = "check"
    /\ pc' = "open"
    /\ UNCHANGED << pureVars, env, files, gitInfo, csv, exit >>

\* if not files: return 0
CheckFiles ==
    /\ pc = "check"
    /\ IF files = <<>> THEN Return("0") ELSE pc' = "open" /\ UNCHANGED exit
    /\ UNCHANGED << pureVars, env, files, gitInfo, csv >>

\* open(out_file, "w") and the header row.
OpenOutput ==
    /\ pc = "open"
    /\ csv' = << Header(env.variant) >>
    /\ pc' = "write"
    /\ UNCHANGED << pureVars, env, files, gitInfo, exit >>

\* open(out_file, "w") fails.
OpenRaises ==
    /\ pc = "open"
    /\ Raise("open", "OSError")
    /\ UNCHANGED << pureVars, env, files, gitInfo, csv >>

\* One iteration of the loop over files.
WriteRow ==
    /\ pc = "write"
    /\ Len(csv) <= Len(files)
    /\ LET pth == files[Len(csv)]
       IN IF DecomposeOf(env.variant, pth).status = "ok"
          THEN /\ csv' = Append(csv, RowOf(env.variant, gitInfo, pth))
               /\ UNCHANGED << pc, exit >>
          ELSE /\ Raise("write", DecomposeOf(env.variant, pth).status)
               /\ UNCHANGED csv
    /\ UNCHANGED << pureVars, env, files, gitInfo >>

\* Writing a row fails.
WriteRaises ==
    /\ pc = "write"
    /\ Len(csv) <= Len(files)
    /\ Raise("write", "OSError")
    /\ UNCHANGED << pureVars, env, files, gitInfo, csv >>

\* The loop is over: "Wrote n rows", return 0.
Finish ==
    /\ pc = "write"
    /\ Len(csv) = Len(files) + 1
    /\ Return("0")
    /\ UNCHANGED << pureVars, env, files, gitInfo, csv >>

Next ==
    \/ Start
    \/ ScanCurrentDirectory
    \/ ListdirRaises
    \/ ScanFolder
    \/ ResolveRemote
    \/ CheckFiles
    \/ OpenOutput
    \/ OpenRaises
    \/ WriteRow
    \/ WriteRaises
    \/ Finish

Spec == Init /\ [][Next]_vars

(***************************************************************************)
(* Extension classifier applied to bounded file names                      *)
(***************************************************************************)
NameAlphabet == { ".", "p", "n", "g", "P", "x" }

ImgInit ==
    /\ MainIdle
    /\ arg \in StringsUpTo(NameAlphabet, MaxNameLen)
    /\ fn = "none"
    /\ res = "pending"

ApplyIsImage ==
    /\ fn = "none"
    /\ fn' = "is_image"
    /\ res' = is_image(arg)
    /\ UNCHANGED << arg, mainVars >>

ImgNext == ApplyIsImage

SpecImage == ImgInit /\ [][ImgNext]_vars

\* The extensions of the specification, without the dot.
ImageExtensions ==
    { <<"p", "n", "g">>, <<"j", "p", "g">>, <<"j", "p", "e", "g">>, <<"g", "i",
        "f">>, <<"w", "e", "b", "p">>, <<"b", "m", "p">>, <<"t", "i", "f">>, <<"t", "i",
            "f", "f">>, <<"s", "v", "g">> }

HasDot(f) == \E i \in 1..Len(f) : f[i] = "."

\* The substring after the last ".".
AfterLastDot(f) ==
    LET d == CHOOSE i \in 1..Len(f) : f[i] = "." /\ \A j \in (i + 1)..Len(f) : f[j] # "."
    IN [k \in 1..(Len(f) - d) |-> f[d + k]]

BeforeLastDot(f) == [k \in 1..(Len(f) - Len(AfterLastDot(f)) - 1) |-> f[k]]

\* C9 as stated: is_image(f) holds exactly when f has a "." and what
\* follows its last "." is, ignoring case, one of the image extensions;
\* ".png" is an image.
C9_ExtensionAfterLastDot ==
    fn = "is_image" =>
        (res <=> (HasDot(arg) /\ Lower(AfterLastDot(arg)) \in ImageExtensions))

\* C9 amended: is_image(f) holds exactly when f has a ".", some character
\* other than "." comes before its last ".", and what follows the last "."
\* is, ignoring case, one of the image extensions; ".png" is not an image.
C9_ExtensionAfterStem ==
    fn = "is_image" =>
        (res <=> ( /\ HasDot(arg)
                   /\ \E k \in 1..Len(BeforeLastDot(arg)) : BeforeLastDot(arg)[k] # "."
                   /\ Lower(AfterLastDot(arg)) \in ImageExtensions ))

\* An upper-case extension after a stem is classified as an image.
C9_Witness ==
    /\ fn = "is_image"
    /\ res = TRUE
    /\ arg = <<"x", ".", "P", "n", "g">>

(***************************************************************************)
(* Properties of main                                                      *)
(***************************************************************************)
DataRows == IF csv = "untouched" THEN <<>> ELSE Tail(csv)

\* link-list-v2.py run on the folder Proj that holds M3/1. D.I Foo/img.png
\* with the remote o/r on branch main has returned 0.
C4_Scenario ==
    /\ pc # "idle"
    /\ env.variant = "v2"
    /\ env.argv = << Proj >>
    /\ IsDir(env.cwd, Proj)
    /\ env.cwd[Proj].walk = << C4Image >>
    /\ gitInfo = RemoteInfo(<<"o">>, <<"r">>, MainBranch)
    /\ pc = "done"
    /\ exit = "0"

\* C4 as stated: the emitted row carries the root-relative path with no
\* added prefix as display name and as URL path.
C4_RowWithoutPrefix ==
    C4_Scenario =>
        DataRows = << << <<"P", "r", "o", "j">>, <<"M", "3">>, <<"D", ".", "I", " ", "F",
            "o", "o">>, <<"P", "r", "o", "j", "/", "M", "3", "/", "1", ".", " ", "D", ".",
            "I", " ", "F", "o", "o", "/", "i", "m", "g", ".", "p", "n", "g">>,
            <<"h", "t", "t", "p", "s", ":", "/", "/", "r", "a", "w", ".", "g", "i", "t",
            "h", "u", "b", "u", "s", "e", "r", "c", "o", "n", "t", "e", "n", "t", ".",
            "c", "o", "m", "/", "o", "/", "r", "/", "r", "e", "f", "s", "/", "h",
            "e", "a", "d", "s", "/", "m", "a", "i", "n", "/", "P", "r", "o",
            "j", "/", "M", "3", "/", "1", ".", "%", "2", "0", "D", ".", "I",
            "%", "2", "0", "F", "o", "o", "/", "i", "m", "g", ".", "p",
            "n", "g">> >> >>

\* C4 amended: link-list-v2.py run with the folder Proj as argument emits
\* exactly the row whose display name and URL path are the path prefixed
\* with "./", only spaces being encoded.
C4_RowWithDotPrefix ==
    C4_Scenario =>
        DataRows = << << <<"P", "r", "o", "j">>, <<"M", "3">>, <<"D", ".", "I", " ", "F",
            "o", "o">>, <<".", "/", "P", "r", "o", "j", "/", "M", "3", "/", "1", ".", " ",
            "D", ".", "I", " ", "F", "o", "o", "/", "i", "m", "g", ".", "p", "n", "g">>,
            <<"h", "t", "t", "p", "s", ":", "/", "/", "r", "a", "w", ".", "g", "i", "t",
            "h", "u", "b", "u", "s", "e", "r", "c", "o", "n", "t", "e", "n", "t", ".",
            "c", "o", "m", "/", "o", "/", "r", "/", "r", "e", "f", "s", "/", "h",
            "e", "a", "d", "s", "/", "m", "a", "i", "n", "/", ".", "/", "P",
            "r", "o", "j", "/", "M", "3", "/", "1", ".", "%", "2", "0", "D",
            ".", "I", "%", "2", "0", "F", "o", "o", "/", "i", "m", "g",
            ".", "p", "n", "g">> >> >>

C4_Witness == C4_Scenario /\ Len(DataRows) = 1

RemoteFails == pc # "idle" /\ get_git_info(env.git).status # "ok"

\* C5: whatever way get_git_info fails, main goes on to the next stage with
\* the remote absent, and every row it writes has an empty url.
C5_RemoteFailureNeverAborts ==
    /\ [][(pc = "git" /\ RemoteFails) =>
            (pc' \in { "scan", "check" } /\ gitInfo' = Absent)]_vars
    /\ [](RemoteFails => \A i \in 1..Len(DataRows) : DataRows[i][5] = Empty)

\* C7: main never lets an exception out; it returns 0, 1, 2 or 3, where 1
\* needs a missing path argument and 2 a path that is not a directory.
C7_AlwaysAnExitCode ==
    /\ pc # "raised"
    /\ pc = "done" =>
        /\ exit \in { "0", "1", "2", "3" }
        /\ exit = "1" => env.argv = <<>>
        /\ exit = "2" => (env.argv # <<>> /\ ~IsDir(env.cwd, env.argv[1]))

\* The folders a run scans.
ScanRoots ==
    IF env.argv = <<>>
    THEN IF env.variant = "v1" THEN {}
         ELSE { d \in DOMAIN env.cwd : IsDir(env.cwd, d) /\ StartsWith(d, <<"O", "p", "l",
            "a", "h">>) }
    ELSE { d \in { env.argv[1] } : IsDir(env.cwd, d) }

\* The images under the scanned folders, as (folder, relative path).
Discovered ==
    UNION { { << d, rel >> : rel \in { r \in SeqRange(env.cwd[d].walk) :
                                          is_image(Basename(r)) } }
            : d \in ScanRoots }

\* C8: images.csv is opened only when the input is valid and an image was
\* found; a run ending with exit 1 or 2, or finding no image, leaves it
\* untouched; a completed file is the header and one row per image, in
\* the order of the scan.
C8_OutputOnlyWithImages ==
    pc # "idle" =>
        /\ csv # "untouched" => (Discovered # {} /\ exit \notin { "1", "2" })
        /\ (pc = "done" /\ exit \in { "1", "2" }) => csv = "untouched"
        /\ (pc = "done" /\ Discovered = {}) => csv = "untouched"
        /\ (pc = "done" /\ exit = "0" /\ csv # "untouched") =>
              /\ csv[1] = Header(env.variant)
              /\ Len(DataRows) = Cardinality(Discovered)
              /\ Len(DataRows) = Len(files)
              /\ \A i \in 1..Len(files) :
                    /\ Basename(DataRows[i][4]) = Basename(files[i])
                    /\ \E d \in Discovered :
                          files[i] = PrefixOf(env.variant, d[1]) \o d[2]
              /\ \A i, j \in 1..Len(files) : i < j => files[i] # files[j]

\* A run that completed a file of several rows.
C8_Witness ==
    /\ pc = "done"
    /\ exit = "0"
    /\ csv # "untouched"
    /\ Len(DataRows) >= 3

====
